---- MODULE Spec2Model ----
(***************************************************************************)
(* tools/generate_blue_noise.py: download a 64x64 blue noise PNG, decode   *)
(* it to 4096 grayscale bytes, format them as a C++ array and either print *)
(* the array or patch it into an existing source file.                     *)
(*                                                                         *)
(* Text (the formatted array, the target file, standard output) is a       *)
(* sequence of one-character strings, so that the formatter, the regular   *)
(* expression of update_main_cpp and the slicing around the match work on  *)
(* characters as the Python code does.                                     *)
(***************************************************************************)
EXTENDS Integers, Sequences, FiniteSets, TLC

VARIABLES
    pc,         \* position of the run inside main()
    update,     \* args.update is set (--update FILE was given)
    remote,     \* the image the URL serves
    png_data,   \* bytes returned by download_blue_noise()
    pixels,     \* list returned by decode_png()
    name,       \* the name argument format_cpp_array() was called with
    cpp_code,   \* text returned by format_cpp_array()
    file,       \* text of the target file on disk
    content,    \* text read from the target file by update_main_cpp()
    match,      \* the match object of re.search (NoMatch for None)
    stdout,     \* text written to standard output by the run
    stderr,     \* messages written to standard error by the run
    status,     \* exit status of the process (Running until it exits)
    writes,     \* number of times the run opened the target file for writing
    run,        \* number of the invocation (1 for the first run)
    file0,      \* text of the target file when the run started
    prev        \* exit status and match of the previous run (NoPrev in run 1)

vars == <<pc, update, remote, png_data, pixels, name, cpp_code, file, content,
          match, stdout, stderr, status, writes, run, file0, prev>>

-----------------------------------------------------------------------------
(* Bounds of the model *)

\* number of pieces a target file is assembled from
MaxPieces == 2
\* seeds of the pixel sequences the formatter is applied to on its own
MaxFormatSeed == 19

-----------------------------------------------------------------------------
(* Text *)

\* a Python str as a sequence of characters
Chars(str) == [i \in 1..Len(str) |-> SubSeq(str, i, i)]

Min(S) == CHOOSE x \in S : \A y \in S : x <= y

Range(q) == {q[i] : i \in 1..Len(q)}

\* s[a:b] for 0 <= a, 0 <= b: the bounds are clipped to the length
PySlice(s, a, b) ==
    LET lo == IF a > Len(s) THEN Len(s) ELSE a
        hi == IF b > Len(s) THEN Len(s) ELSE b
    IN SubSeq(s, lo + 1, hi)

\* sep.join(parts) for parts[a..b]
RECURSIVE JoinRange(_, _, _, _)
JoinRange(parts, sep, a, b) ==
    IF a > b THEN <<>>
    ELSE IF a = b THEN parts[a]
    ELSE LET m == (a + b) \div 2
         IN JoinRange(parts, sep, a, m) \o sep \o JoinRange(parts, sep, m + 1, b)

Join(parts, sep) == JoinRange(parts, sep, 1, Len(parts))

DigitChar(d) == <<"0", "1", "2", "3", "4", "5", "6", "7", "8", "9">>[d + 1]

\* str(v) for v >= 0
RECURSIVE Decimal(_)
Decimal(v) == IF v < 10 THEN <<DigitChar(v)>>
              ELSE Decimal(v \div 10) \o <<DigitChar(v % 10)>>

\* f"{v:3d}": decimal, right-justified in a field of at least 3 characters
Format3d(v) ==
    LET d == Decimal(v)
    IN [i \in 1..(3 - Len(d)) |-> " "] \o d

-----------------------------------------------------------------------------
(* format_cpp_array *)

DefaultName == Chars("g_blueNoiseData")

HeaderLines(nm) ==
    << Chars("// 64x64 blue noise texture data (single channel, 8-bit)"),
       Chars("// Source: momentsingraphics.de (Christoph Peters) - CC0 Public Domain"),
       Chars("// Downloaded from free-blue-noise-textures repository"),
       Chars("static const unsigned char ") \o nm \o Chars("[64 * 64] = {") >>

\* the same loop body with the chunk one value short
DataLineShortChunk(px, row, chunk_start) ==
    LET row_values == PySlice(px, row * 64, (row + 1) * 64)
        chunk == PySlice(row_values, chunk_start, chunk_start + 15)
        formatted == Join([j \in 1..Len(chunk) |-> Format3d(chunk[j])], <<",">>)
    IN IF row = 63 /\ chunk_start = 48
       THEN Chars("    ") \o formatted
       ELSE Chars("    ") \o formatted \o <<",">>

\* the same loop body with the chunk taken from pixels instead of row_values
DataLineNoRowOffset(px, row, chunk_start) ==
    LET chunk == PySlice(px, chunk_start, chunk_start + 16)
        formatted == Join([j \in 1..Len(chunk) |-> Format3d(chunk[j])], <<",">>)
    IN IF row = 63 /\ chunk_start = 48
       THEN Chars("    ") \o formatted
       ELSE Chars("    ") \o formatted \o <<",">>

\* the line appended for one (row, chunk_start) of the two loops
DataLine(px, row, chunk_start) ==
    LET row_values == PySlice(px, row * 64, (row + 1) * 64)
        chunk == PySlice(row_values, chunk_start, chunk_start + 16)
        formatted == Join([j \in 1..Len(chunk) |-> Format3d(chunk[j])], <<",">>)
    IN IF row = 63 /\ chunk_start = 48
       THEN Chars("    ") \o formatted
       ELSE Chars("    ") \o formatted \o <<",">>

\* the list `lines` when the function returns
FormatLines(px, nm) ==
    HeaderLines(nm)
    \o [k \in 1..256 |-> DataLine(px, (k - 1) \div 4, ((k - 1) % 4) * 16)]
    \o << Chars("};") >>

format_cpp_array(px, nm) == Join(FormatLines(px, nm), <<"\n">>)

-----------------------------------------------------------------------------
(* Pixel sequences the model draws from: seed 0 is the solid mid-gray       *)
(* image, seed 1 a ramp through all 256 values, larger seeds other strides. *)

PixelValue(seed, i) == (128 + seed * i + 37 * (seed \div 2)) % 256

Running == -1
NoMatch == [start |-> -1, end |-> -1]
NoPrev == [status |-> Running, match |-> NoMatch]
NoData == [kind |-> "none", w |-> 0, h |-> 0, seed |-> 0]

-----------------------------------------------------------------------------
(* Messages on standard error *)

DownloadingMsg == "Downloading from https://raw.githubusercontent.com/Calinou/free-blue-noise-textures/master/64_64/LDR_LLL1_0.png..."
ResizeWarning == "Warning: Image size is not (64, 64). Resizing..."
NoPillowMsg == "PIL/Pillow not found. Install with: pip install Pillow"
PixelCountMsg == "Error: Expected 4096 pixels"
NotFoundMsg == "Could not find existing g_blueNoiseData array in file!"
UpdatedMsg == "Updated file with new blue noise data."
\* what the interpreter prints for an exception nothing catches
Traceback == "Traceback (most recent call last):"

\* the exit status of the interpreter after an exception nothing catches
UncaughtStatus == 1

-----------------------------------------------------------------------------
(* download_blue_noise and decode_png *)

\* the images the URL may serve: a PNG of some size, or bytes that are no image
Images ==
    { [kind |-> "png", w |-> 64, h |-> 64, seed |-> 0],
      [kind |-> "png", w |-> 32, h |-> 16, seed |-> 3],
      [kind |-> "corrupt", w |-> 0, h |-> 0, seed |-> 0] }

\* Image.open(...).convert('L'): the grayscale raster a PNG encodes
OpenImage(png) ==
    [w |-> png.w, h |-> png.h,
     data |-> [i \in 1..(png.w * png.h) |-> PixelValue(png.seed, i - 1)]]

\* img.resize((w, h), Image.Resampling.NEAREST): each destination pixel takes
\* the source pixel under its centre
Resize(img, w, h) ==
    [w |-> w, h |-> h,
     data |-> [i \in 1..(w * h) |->
                 LET x == (i - 1) % w
                     y == (i - 1) \div w
                     sx == ((2 * x + 1) * img.w) \div (2 * w)
                     sy == ((2 * y + 1) * img.h) \div (2 * h)
                 IN img.data[sy * img.w + sx + 1]]]

\* decode_png without the resize
decode_png_no_resize(png) == OpenImage(png).data

\* the list decode_png returns for bytes that hold an image
decode_png(png) ==
    LET img == OpenImage(png)
    IN IF <<img.w, img.h>> # <<64, 64>>
       THEN Resize(img, 64, 64).data
       ELSE img.data

\* what decode_png prints before it returns
decode_warnings(png) ==
    IF <<png.w, png.h>> # <<64, 64>> THEN <<ResizeWarning>> ELSE <<>>

-----------------------------------------------------------------------------
(* update_main_cpp: the pattern and re.search *)

Marker == Chars("// 64x64 blue noise texture data")
Decl == Chars("static const unsigned char g_blueNoiseData[64 * 64] = {")

OccursAt(s, p, i) ==
    /\ i + Len(p) - 1 <= Len(s)
    /\ \A j \in 1..Len(p) : s[i + j - 1] = p[j]

\* the positions where p occurs in s
Occurrences(s, p) == {i \in 1..Len(s) : s[i] = p[1] /\ OccursAt(s, p, i)}

\* the positions where s holds character c
PositionsOf(s, c) == {i \in 1..Len(s) : s[i] = c}

\* [^}]+\}; after a declaration at d: the position of the ';' it ends at, or 0.
\* The class takes every character up to the first '}' (at least one), and
\* that '}' has to be followed by ';'.
BodyEnd(s, B, d) ==
    LET from == d + Len(Decl)
        After == {b \in B : b >= from}
    IN IF After = {} THEN 0
       ELSE LET b == Min(After)
            IN IF b > from /\ b < Len(s) /\ s[b + 1] = ";" THEN b + 1 ELSE 0

\* the same with [^}]* for [^}]+ (an empty body accepted)
BodyEndStar(s, B, d) ==
    LET from == d + Len(Decl)
        After == {b \in B : b >= from}
    IN IF After = {} THEN 0
       ELSE LET b == Min(After)
            IN IF b < Len(s) /\ s[b + 1] = ";" THEN b + 1 ELSE 0

\* the leftmost match: the first marker after which some declaration has a
\* body, and (.*? being lazy) the first such declaration after it; start and
\* end are the offsets match.start() and match.end()
SearchWith(s, M, D, E) ==
    LET Starts == {m \in M :
                     \E d \in D : d >= m + Len(Marker) /\ E[d] > 0}
    IN IF Starts = {} THEN NoMatch
       ELSE LET m == Min(Starts)
                d == Min({d \in D : d >= m + Len(Marker) /\ E[d] > 0})
            IN [start |-> m - 1, end |-> E[d]]

SearchIn(s, M, D, B) ==
    SearchWith(s, M, D, [d \in D |-> BodyEnd(s, B, d)])

SearchInStar(s, M, D, B) ==
    SearchWith(s, M, D, [d \in D |-> BodyEndStar(s, B, d)])

\* the pattern with the final ';' left out
SearchInNoSemicolon(s, M, D, B) ==
    LET m == SearchWith(s, M, D, [d \in D |-> BodyEnd(s, B, d)])
    IN IF m = NoMatch THEN NoMatch ELSE [m EXCEPT !.end = m.end - 1]

re_search_star(s) ==
    SearchInStar(s, Occurrences(s, Marker), Occurrences(s, Decl),
                 PositionsOf(s, "}"))

re_search_no_semicolon(s) ==
    SearchInNoSemicolon(s, Occurrences(s, Marker), Occurrences(s, Decl),
                        PositionsOf(s, "}"))

\* re.search(pattern, content, re.DOTALL)
re_search(s) ==
    SearchIn(s, Occurrences(s, Marker), Occurrences(s, Decl),
             PositionsOf(s, "}"))

\* content[:match.start()] + new_array_code + content[match.end():]
\* with the tail taken one character early
new_content_early_tail(text, m, new_array_code) ==
    SubSeq(text, 1, m.start) \o new_array_code \o SubSeq(text, m.end, Len(text))

\* content[:match.start()] + new_array_code + content[match.end():]
new_content(text, m, new_array_code) ==
    SubSeq(text, 1, m.start) \o new_array_code \o SubSeq(text, m.end + 1, Len(text))

-----------------------------------------------------------------------------
(* Target files: up to MaxPieces pieces, one after the other *)

OldArray ==
    Chars("// 64x64 blue noise texture data (old)\nstatic const unsigned char g_blueNoiseData[64 * 64] = {\n      1,  2\n};\n")

Pieces ==
    << \* a comment that names the texture
       Chars("// 64x64 blue noise texture data is below\n"),
       \* an array as an earlier hand edit left it
       OldArray,
       \* the array closed by '}' without ';'
       Chars("// 64x64 blue noise texture data\nstatic const unsigned char g_blueNoiseData[64 * 64] = {\n  7 }\n"),
       \* the array with an empty body
       Chars("// 64x64 blue noise texture data\nstatic const unsigned char g_blueNoiseData[64 * 64] = {};\n"),
       \* other code, and the array without its header comment
       Chars("int x = 0;\nstatic const unsigned char g_blueNoiseData[64 * 64] = {\n  7\n};\n") >>

RECURSIVE Assemble(_)
Assemble(ks) == IF ks = <<>> THEN <<>> ELSE Pieces[Head(ks)] \o Assemble(Tail(ks))

Files ==
    { Assemble(ks) : ks \in UNION { [1..n -> 1..Len(Pieces)] : n \in 0..MaxPieces } }

-----------------------------------------------------------------------------
(* main *)

Init ==
    /\ pc = "start"
    /\ update \in BOOLEAN
    /\ remote \in Images
    /\ file \in (IF update THEN Files ELSE {<<>>})
    /\ file0 = file
    /\ png_data = NoData
    /\ pixels = <<>>
    /\ name = <<>>
    /\ cpp_code = <<>>
    /\ content = <<>>
    /\ match = NoMatch
    /\ stdout = <<>>
    /\ stderr = <<>>
    /\ status = Running
    /\ writes = 0
    /\ run = 1
    /\ prev = NoPrev

\* the process ends with the given status after printing msgs
Exit(msgs, st) ==
    /\ stderr' = stderr \o msgs
    /\ status' = st
    /\ pc' = "exited"

\* download_blue_noise() returns the response body
Download ==
    /\ pc = "start"
    /\ png_data' = remote
    /\ stderr' = Append(stderr, DownloadingMsg)
    /\ pc' = "downloaded"
    /\ UNCHANGED <<update, remote, pixels, name, cpp_code, file, content, match,
                   stdout, status, writes, run, file0, prev>>

\* urlopen or read raises: nothing catches it
DownloadError ==
    /\ pc = "start"
    /\ Exit(<<DownloadingMsg, Traceback>>, UncaughtStatus)
    /\ UNCHANGED <<update, remote, png_data, pixels, name, cpp_code, file, content,
                   match, stdout, writes, run, file0, prev>>

\* decode_png(): the import of PIL fails
DecodeNoPillow ==
    /\ pc = "downloaded"
    /\ Exit(<<NoPillowMsg>>, 1)
    /\ UNCHANGED <<update, remote, png_data, pixels, name, cpp_code, file, content,
                   match, stdout, writes, run, file0, prev>>

\* decode_png(): Image.open raises on bytes that are no image
DecodeError ==
    /\ pc = "downloaded"
    /\ png_data.kind = "corrupt"
    /\ Exit(<<Traceback>>, UncaughtStatus)
    /\ UNCHANGED <<update, remote, png_data, pixels, name, cpp_code, file, content,
                   match, stdout, writes, run, file0, prev>>

\* decode_png() returns the pixels
Decode ==
    /\ pc = "downloaded"
    /\ png_data.kind = "png"
    /\ pixels' = decode_png(png_data)
    /\ stderr' = stderr \o decode_warnings(png_data)
    /\ pc' = "decoded"
    /\ UNCHANGED <<update, remote, png_data, name, cpp_code, file, content, match,
                   stdout, status, writes, run, file0, prev>>

\* main without the test of len(pixels)
CheckPixelsSkipped ==
    /\ pc = "decoded"
    /\ pc' = "checked"
    /\ UNCHANGED <<update, remote, png_data, pixels, name, cpp_code, file,
                   content, match, stdout, stderr, status, writes, run, file0, prev>>

\* main: if len(pixels) != 64 * 64: ... sys.exit(1)
CheckPixels ==
    /\ pc = "decoded"
    /\ IF Len(pixels) # 64 * 64
       THEN Exit(<<PixelCountMsg>>, 1)
       ELSE pc' = "checked" /\ UNCHANGED <<stderr, status>>
    /\ UNCHANGED <<update, remote, png_data, pixels, name, cpp_code, file,
                   content, match, stdout, writes, run, file0, prev>>

\* main: cpp_code = format_cpp_array(pixels)
Format ==
    /\ pc = "checked"
    /\ name' = DefaultName
    /\ cpp_code' = format_cpp_array(pixels, DefaultName)
    /\ pc' = "formatted"
    /\ UNCHANGED <<update, remote, png_data, pixels, file, content, match,
                   stdout, stderr, status, writes, run, file0, prev>>

\* main: print(cpp_code), and the process ends
PrintCode ==
    /\ pc = "formatted"
    /\ ~update
    /\ stdout' = stdout \o cpp_code \o <<"\n">>
    /\ Exit(<<>>, 0)
    /\ UNCHANGED <<update, remote, png_data, pixels, name, cpp_code, file,
                   content, match, writes, run, file0, prev>>

\* update_main_cpp: content = f.read()
ReadTarget ==
    /\ pc = "formatted"
    /\ update
    /\ content' = file
    /\ pc' = "read"
    /\ UNCHANGED <<update, remote, png_data, pixels, name, cpp_code, file, match,
                   stdout, stderr, status, writes, run, file0, prev>>

\* update_main_cpp: open(filepath, 'r') or read raises
ReadError ==
    /\ pc = "formatted"
    /\ update
    /\ Exit(<<Traceback>>, UncaughtStatus)
    /\ UNCHANGED <<update, remote, png_data, pixels, name, cpp_code, file,
                   content, match, stdout, writes, run, file0, prev>>

\* update_main_cpp with the file opened for writing before the search
SearchTargetAfterOpen ==
    /\ pc = "read"
    /\ match' = re_search(content)
    /\ file' = <<>>
    /\ writes' = writes + 1
    /\ IF match' = NoMatch
       THEN Exit(<<NotFoundMsg>>, 1)
       ELSE pc' = "matched" /\ UNCHANGED <<stderr, status>>
    /\ UNCHANGED <<update, remote, png_data, pixels, name, cpp_code, content,
                   stdout, run, file0, prev>>

\* update_main_cpp without the sys.exit(1) status: the run ends with status 0
SearchTargetExitZero ==
    /\ pc = "read"
    /\ match' = re_search(content)
    /\ IF match' = NoMatch
       THEN Exit(<<NotFoundMsg>>, 0)
       ELSE pc' = "matched" /\ UNCHANGED <<stderr, status>>
    /\ UNCHANGED <<update, remote, png_data, pixels, name, cpp_code, file,
                   content, stdout, writes, run, file0, prev>>

\* update_main_cpp: match = re.search(...); if not match: ... sys.exit(1)
SearchTarget ==
    /\ pc = "read"
    /\ match' = re_search(content)
    /\ IF match' = NoMatch
       THEN Exit(<<NotFoundMsg>>, 1)
       ELSE pc' = "matched" /\ UNCHANGED <<stderr, status>>
    /\ UNCHANGED <<update, remote, png_data, pixels, name, cpp_code, file,
                   content, stdout, writes, run, file0, prev>>

\* update_main_cpp: the new content is written back, and the process ends
WriteTarget ==
    /\ pc = "matched"
    /\ file' = new_content(content, match, cpp_code)
    /\ writes' = writes + 1
    /\ Exit(<<UpdatedMsg>>, 0)
    /\ UNCHANGED <<update, remote, png_data, pixels, name, cpp_code, content,
                   match, stdout, run, file0, prev>>

\* update_main_cpp: open(filepath, 'w') raises and the file is as it was, or
\* the write raises after the open has truncated the file
WriteError ==
    /\ pc = "matched"
    /\ \/ UNCHANGED <<file, writes>>
       \/ /\ writes' = writes + 1
          /\ \E k \in {0, Len(new_content(content, match, cpp_code)) \div 2} :
                file' = SubSeq(new_content(content, match, cpp_code), 1, k)
    /\ Exit(<<Traceback>>, UncaughtStatus)
    /\ UNCHANGED <<update, remote, png_data, pixels, name, cpp_code, content,
                   match, stdout, run, file0, prev>>

\* the tool is run a second time on the same file, the URL serving the same
\* image, after a run that went through update_main_cpp
RunAgain ==
    /\ pc = "exited"
    /\ update
    /\ run = 1
    /\ status = 0 \/ NotFoundMsg \in Range(stderr)
    /\ prev' = [status |-> status, match |-> match]
    /\ run' = run + 1
    /\ file0' = file
    /\ pc' = "start"
    /\ png_data' = NoData
    /\ pixels' = <<>>
    /\ name' = <<>>
    /\ cpp_code' = <<>>
    /\ content' = <<>>
    /\ match' = NoMatch
    /\ stdout' = <<>>
    /\ stderr' = <<>>
    /\ status' = Running
    /\ writes' = 0
    /\ UNCHANGED <<update, remote, file>>

Next ==
    \/ Download
    \/ DownloadError
    \/ DecodeNoPillow
    \/ DecodeError
    \/ Decode
    \/ CheckPixels
    \/ Format
    \/ PrintCode
    \/ ReadTarget
    \/ ReadError
    \/ SearchTarget
    \/ WriteTarget
    \/ WriteError
    \/ RunAgain

Spec == Init /\ [][Next]_vars

-----------------------------------------------------------------------------
(* main with nothing assumed of the list decode_png returns: the image      *)
(* library may hand back any number of samples, which is the case the test  *)
(* of len(pixels) in main is written for.                                   *)

DecodeAny ==
    /\ pc = "downloaded"
    /\ png_data.kind = "png"
    /\ \E n \in {0, 4095, 4096, 4097} :
          pixels' = PySlice(decode_png(png_data) \o decode_png(png_data), 0, n)
    /\ stderr' = stderr \o decode_warnings(png_data)
    /\ pc' = "decoded"
    /\ UNCHANGED <<update, remote, png_data, name, cpp_code, file, content, match,
                   stdout, status, writes, run, file0, prev>>

NextAnyDecode ==
    \/ Download
    \/ DownloadError
    \/ DecodeNoPillow
    \/ DecodeError
    \/ DecodeAny
    \/ CheckPixels
    \/ Format
    \/ PrintCode
    \/ ReadTarget
    \/ ReadError
    \/ SearchTarget
    \/ WriteTarget
    \/ WriteError
    \/ RunAgain

SpecAnyDecode == Init /\ [][NextAnyDecode]_vars

-----------------------------------------------------------------------------
(* The formatter on its own: format_cpp_array(pixels, name) applied to a    *)
(* pixel sequence of length 4096 and a requested identifier.                *)

Names == { DefaultName, Chars("n"), Chars("tex_2") }

InitFormat ==
    /\ pc = "call"
    /\ \E seed \in 0..MaxFormatSeed :
           pixels = [i \in 1..4096 |-> PixelValue(seed, i - 1)]
    /\ name \in Names
    /\ cpp_code = <<>>
    /\ update = FALSE /\ remote = NoData /\ png_data = NoData
    /\ file = <<>> /\ content = <<>> /\ match = NoMatch
    /\ stdout = <<>> /\ stderr = <<>> /\ status = Running
    /\ writes = 0 /\ run = 1 /\ file0 = <<>> /\ prev = NoPrev

FormatCall ==
    /\ pc = "call"
    /\ cpp_code' = format_cpp_array(pixels, name)
    /\ pc' = "returned"
    /\ UNCHANGED <<update, remote, png_data, pixels, name, file, content, match,
                   stdout, stderr, status, writes, run, file0, prev>>

NextFormat == FormatCall

SpecFormat == InitFormat /\ [][NextFormat]_vars

-----------------------------------------------------------------------------
(* Reading formatted text back, independently of how it was produced *)

\* the positions in a..b where s holds character c, in increasing order
RECURSIVE OrderedPositions(_, _, _, _)
OrderedPositions(s, c, a, b) ==
    IF a > b THEN <<>>
    ELSE IF a = b THEN (IF s[a] = c THEN <<a>> ELSE <<>>)
    ELSE LET m == (a + b) \div 2
         IN OrderedPositions(s, c, a, m) \o OrderedPositions(s, c, m + 1, b)

\* the pieces of s around the positions P (increasing)
PiecesAround(s, P) ==
    [k \in 1..(Len(P) + 1) |->
        SubSeq(s, IF k = 1 THEN 1 ELSE P[k - 1] + 1,
                  IF k > Len(P) THEN Len(s) ELSE P[k] - 1)] \o <<>>

\* s.split(c): the pieces of s between the occurrences of character c
Split(s, c) == PiecesAround(s, OrderedPositions(s, c, 1, Len(s)))

IsDigit(c) == c \in {"0", "1", "2", "3", "4", "5", "6", "7", "8", "9"}
DigitValue(c) == CHOOSE d \in 0..9 : DigitChar(d) = c

\* s.strip(" ")
Strip(s) ==
    LET Keep == {i \in 1..Len(s) : s[i] # " "}
    IN IF Keep = {} THEN <<>>
       ELSE SubSeq(s, Min(Keep), -Min({-i : i \in Keep}))

\* int(s) for a string of digits
RECURSIVE ParseInt(_)
ParseInt(s) ==
    IF Len(s) = 1 THEN DigitValue(s[1])
    ELSE 10 * ParseInt(SubSeq(s, 1, Len(s) - 1)) + DigitValue(s[Len(s)])

\* the numbers of one line: split on commas, padding ignored, empty pieces skipped
ParseLine(l) ==
    LET F == Split(l, ",")
        N == [j \in 1..Len(F) |->
                 IF Strip(F[j]) = <<>> THEN <<>> ELSE <<ParseInt(Strip(F[j]))>>]
    IN Join(N, <<>>)

\* the numbers of the lines between the declaration line and the closing line
ParseArray(text) ==
    LET L == Split(text, "\n")
    IN Join([k \in 1..(Len(L) - 5) |-> ParseLine(L[4 + k])], <<>>)

\* field f (3 characters) is value v right-justified: spaces, then its decimal
\* digits without a leading zero
FieldIs(f, v) ==
    /\ Len(f) = 3
    /\ \E pad \in 0..2 :
          /\ \A i \in 1..pad : f[i] = " "
          /\ \A i \in (pad + 1)..3 : IsDigit(f[i])
          /\ pad < 2 => f[pad + 1] # "0"
          /\ ParseInt(SubSeq(f, pad + 1, 3)) = v

\* l is data line k (0..255) of the array of px
DataLineIs(l, k, px) ==
    /\ Len(l) = 4 + 16 * 3 + 15 + (IF k = 255 THEN 0 ELSE 1)
    /\ \A i \in 1..4 : l[i] = " "
    /\ \A j \in 0..15 :
          /\ FieldIs(SubSeq(l, 5 + 4 * j, 7 + 4 * j), px[16 * k + j + 1])
          /\ j < 15 => l[8 + 4 * j] = ","
    /\ k < 255 => l[Len(l)] = ","

IsComment(l) == Len(l) >= 2 /\ l[1] = "/" /\ l[2] = "/"

\* C4: the formatter's output is three comment lines, the declaration naming
\* the requested identifier, 256 data lines of 16 right-justified values
\* each (data line k holding pixels 16k..16k+15), every data line but the
\* last ending in a comma, and the closing terminator.
FormatterLayout ==
    pc = "returned" =>
        LET L == Split(cpp_code, "\n")
        IN /\ Len(L) = 4 + 256 + 1
           /\ \A i \in 1..3 : IsComment(L[i])
           /\ L[4] = Chars("static const unsigned char ") \o name \o Chars("[64 * 64] = {")
           /\ \A k \in 0..255 : DataLineIs(L[5 + k], k, pixels)
           /\ L[261] = Chars("};")

\* a call has returned for a requested identifier other than the default and
\* for pixels with one-, two- and three-digit values
FormatterLayoutWitness ==
    /\ pc = "returned"
    /\ name # DefaultName
    /\ Len(pixels) = 4096
    /\ \E i \in 1..4096 : pixels[i] < 10
    /\ \E i \in 1..4096 : pixels[i] \in 10..99
    /\ \E i \in 1..4096 : pixels[i] > 99
    /\ Len(cpp_code) > 0

\* C5: reading the numbers of the formatter's data lines back in order gives
\* the pixel sequence the formatter was called with.
FormatterRoundTrip ==
    pc = "returned" => ParseArray(cpp_code) = pixels

\* a call has returned for pixels that are not all equal and span 0..255
FormatterRoundTripWitness ==
    /\ pc = "returned"
    /\ Len(pixels) = 4096
    /\ \E i \in 1..4096 : pixels[i] = 0
    /\ \E i \in 1..4096 : pixels[i] = 255
    /\ pixels[1] # pixels[2]
    /\ Len(ParseArray(cpp_code)) = 4096

-----------------------------------------------------------------------------
(* Properties of main and update_main_cpp *)

Last(q) == q[Len(q)]

\* s holds a region the pattern matches: a marker, later a declaration, then
\* at least one character other than '}' and then "};"
HasSignature(s) ==
    LET M == Occurrences(s, Marker)
        D == Occurrences(s, Decl)
        B == PositionsOf(s, "}")
    IN \E m \in M :
           \E d \in D :
               /\ d >= m + Len(Marker)
               /\ \E b \in B :
                     /\ b > d + Len(Decl)
                     /\ b < Len(s)
                     /\ s[b + 1] = ";"
                     /\ \A c \in B : c < d + Len(Decl) \/ c >= b

\* C1: in update mode, a run on a target file that holds no region matching
\* the array signature ends with a non-zero exit status, and the file is as
\* it was before the run: nothing was written to it.
NoSignatureLeavesFile ==
    (update /\ pc = "exited" /\ ~HasSignature(file0)) =>
        /\ status # 0
        /\ file = file0
        /\ writes = 0

\* the search ran on a file that holds the declaration and a marker but no
\* matching region, and the run has ended
NoSignatureWitness ==
    /\ update
    /\ pc = "exited"
    /\ Last(stderr) = NotFoundMsg
    /\ Occurrences(file0, Decl) # {}
    /\ Occurrences(file0, Marker) # {}
    /\ ~HasSignature(file0)
    /\ status = 1

\* C2: a second update in succession, the image being the same, leaves the
\* file as the first left it; when the first wrote the array, the second
\* finds exactly the text the first wrote and replaces it by itself.
UpdateIdempotent ==
    (run >= 2 /\ pc = "exited" /\ (status = 0 \/ Last(stderr) = NotFoundMsg)) =>
        /\ file = file0
        /\ prev.status = 0 =>
              /\ status = 0
              /\ match.start = prev.match.start
              /\ match.end = match.start + Len(cpp_code)

\* a second update has ended after a first one that replaced an array with
\* text before and after it
UpdateIdempotentWitness ==
    /\ run = 2
    /\ pc = "exited"
    /\ status = 0
    /\ prev.status = 0
    /\ prev.match.start > 0
    /\ Len(file) > match.end

\* C3: when the pattern matches, the file written back is the text before
\* the matched span, then the newly formatted text, then the text after the
\* matched span, and it is written once, to the target file.
UpdateReplacesSpanOnly ==
    (update /\ pc = "exited" /\ status = 0) =>
        /\ 0 <= match.start /\ match.start < match.end /\ match.end <= Len(file0)
        /\ writes = 1
        /\ Len(file) = match.start + Len(cpp_code) + (Len(file0) - match.end)
        /\ SubSeq(file, 1, match.start) = SubSeq(file0, 1, match.start)
        /\ SubSeq(file, match.start + 1, match.start + Len(cpp_code)) = cpp_code
        /\ SubSeq(file, match.start + Len(cpp_code) + 1, Len(file))
             = SubSeq(file0, match.end + 1, Len(file0))

\* an update has replaced a span that has text before it and text after it
UpdateReplacesSpanWitness ==
    /\ update
    /\ pc = "exited"
    /\ status = 0
    /\ match.start > 0
    /\ match.end < Len(file0)
    /\ file # file0

\* C6 as stated: the exit status is non-zero exactly when the decoding
\* library is missing, the pixel count is not 4096 or the array region is not
\* found; every other run, one ended by a network or file-access failure
\* included, exits with status zero.
ExitNonZeroInThreeCasesOnly ==
    pc = "exited" =>
        (status # 0 <=> Last(stderr) \in {NoPillowMsg, PixelCountMsg, NotFoundMsg})

\* C6 as amended: the exit status is non-zero exactly when the run is ended
\* by the missing decoding library, a pixel count other than 4096, the array
\* region not being found, or an exception nothing catches (a network,
\* decoding or file-access failure); it is zero exactly when the run printed
\* the array or wrote the file.
ExitStatusByCause ==
    pc = "exited" =>
        /\ status \in {0, 1}
        /\ status # 0 <=>
              Last(stderr) \in {NoPillowMsg, PixelCountMsg, NotFoundMsg, Traceback}
        /\ status = 0 <=>
              \/ ~update /\ stdout = cpp_code \o <<"\n">> /\ cpp_code # <<>>
              \/ update /\ Last(stderr) = UpdatedMsg /\ writes = 1

\* a run has been ended by an exception nothing catches
ExitStatusWitness ==
    /\ pc = "exited"
    /\ Last(stderr) = Traceback
    /\ status # 0
    /\ stdout = <<>>

\* C7: the formatter is reached only with 4096 pixels: while the list of
\* pixels has any other length nothing is formatted, printed, read from the
\* target file or written to it, main goes from the decoder's return straight
\* to its exit, and the exit status is non-zero.
FormatterOnlyWith4096 ==
    Len(pixels) # 4096 =>
        /\ pc \in {"start", "downloaded", "decoded", "exited"}
        /\ cpp_code = <<>>
        /\ stdout = <<>>
        /\ content = <<>>
        /\ match = NoMatch
        /\ writes = 0
        /\ file = file0
        /\ pc = "exited" => status # 0

\* the decoder returned 4095 pixels in update mode on a file that holds the
\* array, and the run has ended on the pixel count
FormatterOnlyWitness ==
    /\ pc = "exited"
    /\ update
    /\ Len(pixels) = 4095
    /\ Last(stderr) = PixelCountMsg
    /\ HasSignature(file0)
    /\ status = 1

\* the text the run would write to the target file
Artifact == new_content(content, match, cpp_code)

\* C8: a raster that is not 64x64 is resized with a warning and the run goes
\* on: the decoder returns 4096 samples and the pixel count never ends such a
\* run. A run that exits with status 0 has printed nothing abnormal but that
\* warning, and a run ended by any other abnormal condition has not produced
\* its output: standard output is empty and the target file is as it was, or
\* cut short by the failed write.
ResizeIsTheOnlyNonFatal ==
    /\ (pixels # <<>> /\ <<png_data.w, png_data.h>> # <<64, 64>>) =>
          /\ ResizeWarning \in Range(stderr)
          /\ Len(pixels) = 4096
          /\ pc # "exited" \/ status = 0 \/ Last(stderr) \in {Traceback, NotFoundMsg}
    /\ (pc = "exited" /\ status = 0) =>
          Range(stderr) \subseteq {DownloadingMsg, ResizeWarning, UpdatedMsg}
    /\ (pc = "exited"
        /\ Range(stderr) \cap {NoPillowMsg, PixelCountMsg, NotFoundMsg, Traceback} # {}) =>
          /\ status # 0
          /\ stdout = <<>>
          /\ \/ writes = 0 /\ file = file0
             \/ writes = 1 /\ match # NoMatch /\ Len(file) < Len(Artifact)

\* a run on an image that is not 64x64 has warned, gone on and written the
\* array into the target file
ResizeWitness ==
    /\ pc = "exited"
    /\ status = 0
    /\ update
    /\ <<png_data.w, png_data.h>> # <<64, 64>>
    /\ ResizeWarning \in Range(stderr)
    /\ file # file0

\* C9: the stages run in order, each on the result of the one before: the
\* target file is written at most once in a run; the only output is written
\* after the download, the decoding, the pixel count, the formatting and (in
\* update mode) the read and the match; and a run that fails before that has
\* left the target file as it was and standard output empty.
StagesInOrder ==
    /\ writes <= 1
    /\ pixels # <<>> => png_data = remote /\ png_data.kind = "png"
    /\ cpp_code # <<>> => Len(pixels) = 4096 /\ pc \notin {"start", "downloaded", "decoded", "checked"}
    /\ content # <<>> => cpp_code # <<>> /\ content = file0 /\ update
    /\ match # NoMatch => cpp_code # <<>> /\ content = file0 /\ update
    /\ (writes > 0 \/ stdout # <<>>) =>
          /\ cpp_code # <<>>
          /\ update => match # NoMatch /\ stdout = <<>> /\ pc = "exited"
          /\ ~update => writes = 0 /\ file = file0 /\ pc = "exited"
    /\ writes = 0 => file = file0
    /\ (pc = "exited" /\ status # 0) => stdout = <<>>

\* a run in update mode has gone through every stage and written the file
StagesInOrderWitness ==
    /\ pc = "exited"
    /\ update
    /\ writes = 1
    /\ status = 0
    /\ file # file0
    /\ content = file0

\* C10 as stated: the span update replaces holds the marker phrase once, at
\* its start, and the declaration once, and ends at the first "};" after
\* that declaration, whatever else the file holds.
ReplacedSpanIsOneArray ==
    pc = "matched" =>
        LET span == SubSeq(content, match.start + 1, match.end)
            decls == Occurrences(span, Decl)
        IN /\ Occurrences(span, Marker) = {1}
           /\ Cardinality(decls) = 1
           /\ LET d == CHOOSE d \in decls : TRUE
                  closes == {i \in Occurrences(span, Chars("};")) : i >= d + Len(Decl)}
              IN closes # {} /\ Min(closes) = Len(span) - 1

====
